---- MODULE Spec2Model ----
(***************************************************************************)
(* Model of the lode research worker: the JSON-lines runner                *)
(* (src/lode/runner.py), the research manager with its interrupt           *)
(* controller (src/lode/manager.py) and the retrying agent runner          *)
(* (src/lode/openai_client.py).                                            *)
(*                                                                         *)
(* Three cooperative tasks exist: the main workflow task (async_main), the *)
(* orchestration task (agent_runner.run wrapped by asyncio.create_task)    *)
(* and the interrupt listener task.  asyncio tasks interleave only at       *)
(* await points, so every action below is the code between two suspension  *)
(* points of one task.  The parent process writes input lines at any time. *)
(***************************************************************************)
EXTENDS Integers, Sequences, FiniteSets, TLC

VARIABLES
    stdin,      \* lines written by the parent and not yet read
    eof,        \* the parent has closed the input
    sent,       \* what the parent has written so far: the number of lines and
                \* the interrupt lines written in each phase of the run
    pc,         \* position of the main task
    stdout,     \* protocol stream: the messages emit() has printed
    stderr,     \* diagnostic channel: the messages _log() has printed
    request,    \* the first line as async_main read it, and whether
                \* parse_request made a Request of it
    sequence,   \* ResearchManager._sequence
    istate,     \* InterruptController: _interrupted, _command
    observed,   \* locals interrupted, command of _run_orchestrator
    inv,        \* the agent_runner.run call in progress
    listener,   \* state of the interrupt_listener task
    budget,     \* ResearchManager._searches_used, _iterations_used
    hist,       \* history the properties read: the calls made on the
                \* InterruptController, what the listener did with its lines and
                \* the line read_clarifying_answers read
    buffered    \* the lines sys.stdin has read from the pipe and not yet
                \* returned: readline takes what the pipe holds, returns one
                \* line and keeps the rest

vars == <<stdin, eof, sent, pc, stdout, stderr, request, sequence, istate,
          observed, inv, listener, budget, hist, buffered>>

(***************************************************************************)
(* Bounds                                                                  *)
(***************************************************************************)
\* number of lines the parent writes in one run
MaxLines == 4
\* number of lines the input pipe holds at once
MaxQueue == 2
\* largest max_retries tried when AgentRunner.run is checked on its own
MaxRetriesBound == 3
\* number of calls made on an InterruptController checked on its own
MaxCalls == 5
\* number of calls of _update_budget_usage made in a row
MaxUpdates == 3
\* number of times Runner.run fails in one run of the workflow
MaxFailures == 2
\* number of values the jitter of a backoff delay is drawn from
JitterSteps == 2

(***************************************************************************)
(* Program constants                                                       *)
(***************************************************************************)
DefaultMaxRetries == 3
DefaultMaxIterations == 10
DefaultMaxSearches == 15

\* Python's None and a key that is absent from a JSON object
None == "<None>"
Absent == "<absent>"

(***************************************************************************)
(* Input lines.  A line is described by what json.loads makes of it and,   *)
(* for a JSON object, by the keys the three readers look at.               *)
(***************************************************************************)
NoConfig == [kind |-> "absent", max_searches |-> DefaultMaxSearches,
             max_iterations |-> DefaultMaxIterations]
ObjConfig(ms, mi) == [kind |-> "object", max_searches |-> ms, max_iterations |-> mi]
BadConfig == [kind |-> "nonobject", max_searches |-> 0, max_iterations |-> 0]

NoAnswers == [kind |-> "absent", items |-> <<>>]
\* an item of the answers list: a string (text) or a value of another type
StrItem(t) == [str |-> TRUE, text |-> t]
NonStrItem == [str |-> FALSE, text |-> ""]
ListAnswers(items) == [kind |-> "list", items |-> items]
NonListAnswers == [kind |-> "number", items |-> <<>>]

BlankLine == [json |-> "blank"]
NotJson == [json |-> "malformed"]
NonObject == [json |-> "nonobject"]
Obj(version, run_id, query, config, type, command, answers) ==
    [json |-> "object", version |-> version, run_id |-> run_id, query |-> query,
     config |-> config, type |-> type, command |-> command, answers |-> answers]

ReqLine(version, run_id, query, config) ==
    Obj(version, run_id, query, config, Absent, Absent, NoAnswers)
AnswersLine(answers) ==
    Obj(Absent, Absent, Absent, NoConfig, Absent, Absent, answers)
ControlLine(type, command) ==
    Obj(Absent, Absent, Absent, NoConfig, type, command, NoAnswers)

RequestLines ==
    { ReqLine("v1", "r1", "q", NoConfig),
      ReqLine("v2", "r1", "q", NoConfig),
      ReqLine("v1", Absent, "q", NoConfig),
      ReqLine("v1", "r1", Absent, NoConfig),
      ReqLine("v1", "r1", "q", BadConfig),
      ReqLine("v1", Absent, "q", BadConfig) }

AnswerLines ==
    { AnswersLine(ListAnswers(<<StrItem("a")>>)),
      AnswersLine(ListAnswers(<<StrItem(" ")>>)),
      AnswersLine(ListAnswers(<<NonStrItem>>)),
      AnswersLine(NonListAnswers) }

ControlLines ==
    { ControlLine("interrupt", "stop"),
      ControlLine("interrupt", "go"),
      ControlLine("interrupt", ""),
      ControlLine("interrupt", Absent) }

Lines == {BlankLine, NotJson, NonObject} \cup RequestLines \cup AnswerLines
            \cup ControlLines

\* The lines are read in the order they are written: the first by
\* parse_request, the second by read_clarifying_answers and every later one
\* by interrupt_listener.  read_clarifying_answers looks at the answers key
\* alone, so one interrupt line stands for every object without that key;
\* interrupt_listener skips a blank line, a line that is not JSON and an
\* object of another type alike, so NotJson stands for the three.
SecondLines == {BlankLine, NotJson, NonObject, ControlLine("interrupt", "stop")}
                  \cup AnswerLines
ListenerLines == {NotJson, NonObject} \cup ControlLines
LaterLines(n) == IF n = 1 THEN SecondLines ELSE ListenerLines

(***************************************************************************)
(* runner.py: the three readers of input lines                             *)
(***************************************************************************)
\* parse_request: "ok" or the exception the call raises
ParseRequest(line) ==
    IF line.json = "malformed" THEN "JSONDecodeError"
    ELSE IF line.json = "nonobject" THEN "AttributeError"
    ELSE IF line.version # "v1" THEN "ValueError"
    ELSE IF line.config.kind = "nonobject" THEN "AttributeError"
    ELSE IF line.run_id = Absent \/ line.query = Absent THEN "KeyError"
    ELSE "ok"

\* the except clause of async_main around parse_request
CaughtByParseHandler(exc) == exc \in {"JSONDecodeError", "KeyError", "ValueError"}

\* read_clarifying_answers on a line that was read (blank stands for end of
\* input as well): the exception raised, or "ok" with the value returned
ReadClarifyingAnswers(line) ==
    IF line.json = "blank" THEN [exc |-> "ok", answers |-> NoAnswers]
    ELSE IF line.json = "malformed" THEN [exc |-> "ok", answers |-> NoAnswers]
    ELSE IF line.json = "nonobject"
         THEN [exc |-> "AttributeError", answers |-> NoAnswers]
    ELSE IF line.answers.kind = "absent"
         THEN [exc |-> "ok", answers |-> ListAnswers(<<>>)]
    ELSE [exc |-> "ok", answers |-> line.answers]

\* str.strip() on the texts the model uses
Strip(t) == IF t = " " THEN "" ELSE t

RECURSIVE NonBlankItems(_)
NonBlankItems(items) ==
    IF items = <<>> THEN <<>>
    ELSE IF Strip(Head(items).text) # ""
         THEN <<Head(items).text>> \o NonBlankItems(Tail(items))
         ELSE NonBlankItems(Tail(items))

\* ResearchManager.run, lines 142-147: the context text built from the answers
BuildContext(answers) ==
    IF answers.kind = "absent" \/ (answers.kind = "list" /\ answers.items = <<>>)
    THEN [exc |-> "ok", header |-> FALSE, items |-> <<>>]
    ELSE IF answers.kind # "list"
    THEN [exc |-> "TypeError", header |-> FALSE, items |-> <<>>]
    ELSE IF \E i \in 1..Len(answers.items) : ~answers.items[i].str
    THEN [exc |-> "AttributeError", header |-> FALSE, items |-> <<>>]
    ELSE [exc |-> "ok", header |-> TRUE, items |-> NonBlankItems(answers.items)]

\* interrupt_listener, lines 164-171, on one line: "skip", "signal" or "raise"
ListenerReads(line) ==
    IF line.json = "blank" THEN [do |-> "skip", command |-> None]
    ELSE IF line.json = "malformed" THEN [do |-> "skip", command |-> None]
    ELSE IF line.json = "nonobject" THEN [do |-> "raise", command |-> None]
    ELSE IF line.type # "interrupt" THEN [do |-> "skip", command |-> None]
    ELSE [do |-> "signal",
          command |-> IF line.command = Absent THEN "stop" ELSE line.command]

(***************************************************************************)
(* runner.py: the protocol messages                                        *)
(***************************************************************************)
Status(m) == [type |-> "status", message |-> m]
Trace == [type |-> "trace"]
Prompt(agent, seq, content) ==
    [type |-> "prompt", agent |-> agent, sequence |-> seq, content |-> content]
RawResponse(agent, seq, content) ==
    [type |-> "raw_response", agent |-> agent, sequence |-> seq, content |-> content]
ClarifyingQuestions == [type |-> "clarifying_questions"]
Decision(action, reason, rs, ri) ==
    [type |-> "decision", action |-> action, reason |-> reason,
     remaining_searches |-> rs, remaining_iterations |-> ri]
\* the value an output holds under a key
Field(out, key) == [of |-> out.shape, key |-> key]
\* ReportData, built from a payload that holds its three fields
ReportDataOf(out) ==
    [short_summary |-> Field(out, "short_summary"),
     markdown_report |-> Field(out, "markdown_report"),
     follow_up_questions |-> Field(out, "follow_up_questions")]
\* run_research, lines 219-224, and emit_report
Report(out) ==
    [type |-> "report",
     short_summary |-> ReportDataOf(out).short_summary,
     markdown_report |-> ReportDataOf(out).markdown_report,
     follow_up_questions |-> ReportDataOf(out).follow_up_questions]
Metadata == [type |-> "metadata"]
Error(message, code) == [type |-> "error", message |-> message, code |-> code]
Done(success) == [type |-> "done", success |-> success]

\* the text of an exception: the set of substrings of str(e).lower() the code
\* looks for, or the name of the exception for the ones Python raises itself
PyError(name) == {name}

(***************************************************************************)
(* openai_client.py                                                        *)
(***************************************************************************)
\* _should_retry
ShouldRetry(e) ==
    \/ ("rate" \in e /\ "limit" \in e)
    \/ "429" \in e
    \/ ("500" \in e \/ "502" \in e \/ "503" \in e \/ "504" \in e)
    \/ ("server" \in e /\ "error" \in e)
    \/ ("connection" \in e \/ "timeout" \in e)

\* the messages Runner.run fails with when AgentRunner.run is checked alone
Errors == { {"503"}, {"429"}, {"rate", "limit"}, {"rate"}, {"server", "error"},
            {"error"}, {"timeout"}, {"invalid", "key"} }
\* the messages Runner.run fails with inside the workflow
RunErrors == { {"503"}, {"invalid", "key"} }

ReportKeys == {"short_summary", "markdown_report", "follow_up_questions"}
Out(shape, keys, sp, it) ==
    [shape |-> shape, keys |-> keys, searches_performed |-> sp, iterations |-> it]
NoOutput == Out("none", {}, 0, 0)
ClarifierOutput == Out("ClarifyingQuestions", {"questions"}, 0, 0)
\* final outputs of the orchestration capability
Outputs ==
    { Out("ReportData", ReportKeys, 0, 0),
      Out("model", {"searches_performed", "iterations", "research_summaries"}, 2, 1),
      Out("dict", ReportKeys \cup {"searches_performed"}, 4, 0),
      Out("str", {}, 0, 0) }
OutputsOf(agent) == IF agent = "clarifier" THEN {ClarifierOutput} ELSE Outputs

\* stderr lines of AgentRunner.run
LogRunning(agent, attempt, retries) ==
    [msg |-> "running", agent |-> agent, n |-> attempt + 1, of |-> retries + 1,
     e |-> {}, delay |-> 0]
LogRetrying(agent, e, base, delay) ==
    [msg |-> "retrying", agent |-> agent, n |-> base, of |-> 0, e |-> e,
     delay |-> delay]
LogPermanent(agent, e) ==
    [msg |-> "permanent", agent |-> agent, n |-> 0, of |-> 0, e |-> e,
     delay |-> 0]

\* _log with the file argument left out: the line lands on stdout
StdoutAfterLogToStdout(entry) == Append(stdout, [type |-> "log", entry |-> entry])

\* _log: print(..., file=sys.stderr) leaves the protocol stream alone
StdoutAfterLog(entry) == stdout

\* the test of line 128 with the bound off by one
CanRetryOffByOne(attempt, retries, e) == attempt <= retries /\ ShouldRetry(e)

\* line 128: the test that decides between a retry and a raise
CanRetry(attempt, retries, e) == attempt < retries /\ ShouldRetry(e)

\* line 129 with a linear step in place of the power of two
BaseDelayLinear(attempt) == attempt + 1

\* line 129
BaseDelay(attempt) == 2 ^ attempt

\* time is counted in ticks, TicksPerSecond of them to the second
TicksPerSecond == 2 * JitterSteps
\* line 130: random.uniform(0, 0.5) is 0.5 * random.random() with
\* random.random() in [0, 1); JitterSteps values of it are drawn
Jitters == IF pc = "invoker" THEN 0..(JitterSteps - 1) ELSE {0}
\* line 131
Delay(base, jitter) == base * TicksPerSecond + jitter

Idle == [agent |-> "none", retries |-> 0, attempt |-> 0, st |-> "idle",
         error |-> {}, result |-> NoOutput, cancel |-> FALSE, delay |-> 0]

\* entry of AgentRunner.run up to the first await (lines 107-114)
StartRun(agent, retries) ==
    [agent |-> agent, retries |-> retries, attempt |-> 0, st |-> "running",
     error |-> {}, result |-> NoOutput, cancel |-> FALSE, delay |-> 0]

RunnerActive == pc \in {"clarifying", "polling", "invoker"}

\* Runner.run returns: lines 114-123
RunnerSucceeds ==
    /\ RunnerActive
    /\ inv.st = "running"
    /\ \E out \in OutputsOf(inv.agent) :
          inv' = [inv EXCEPT !.st = "returned", !.result = out]
    /\ UNCHANGED <<stdin, eof, sent, pc, stdout, stderr, request, sequence,
                   istate, observed, listener, budget, hist, buffered>>

\* the failures of Runner.run logged so far
FailuresLogged == Len(SelectSeq(stderr, LAMBDA l : l.msg \in {"retrying", "permanent"}))

\* Runner.run raises e: lines 125-136
RunnerFails ==
    /\ RunnerActive
    /\ inv.st = "running"
    /\ pc = "invoker" \/ FailuresLogged < MaxFailures
    /\ \E e \in (IF pc = "invoker" THEN Errors ELSE RunErrors), jitter \in Jitters :
          IF CanRetry(inv.attempt, inv.retries, e)
          THEN LET base == BaseDelay(inv.attempt)
                   entry == LogRetrying(inv.agent, e, base, Delay(base, jitter))
               IN /\ inv' = [inv EXCEPT !.st = "sleeping", !.error = e,
                                        !.delay = Delay(base, jitter)]
                  /\ stderr' = Append(stderr, entry)
                  /\ stdout' = StdoutAfterLog(entry)
          ELSE /\ jitter = 0
               /\ inv' = [inv EXCEPT !.st = "raised", !.error = e]
               /\ stderr' = Append(stderr, LogPermanent(inv.agent, e))
               /\ stdout' = StdoutAfterLog(LogPermanent(inv.agent, e))
    /\ UNCHANGED <<stdin, eof, sent, pc, request, sequence,
                   istate, observed, listener, budget, hist, buffered>>

\* asyncio.sleep(delay) returns and the loop starts the next attempt:
\* lines 133, 110-114
SleepElapses ==
    /\ RunnerActive
    /\ inv.st = "sleeping"
    /\ inv' = [inv EXCEPT !.st = "running", !.attempt = inv.attempt + 1,
                          !.delay = 0]
    /\ stderr' = Append(stderr,
                        LogRunning(inv.agent, inv.attempt + 1, inv.retries))
    /\ stdout' = StdoutAfterLog(LogRunning(inv.agent, inv.attempt + 1, inv.retries))
    /\ UNCHANGED <<stdin, eof, sent, pc, request, sequence,
                   istate, observed, listener, budget, hist, buffered>>

(***************************************************************************)
(* manager.py                                                              *)
(***************************************************************************)
\* _next_sequence without its increment
NextSequenceStuck(s) == s

\* ResearchManager._next_sequence
NextSequence(s) == s + 1

\* InterruptController.__init__
Constructed == [interrupted |-> FALSE, command |-> None]

\* clear without the reset of _command
ClearedCommandKept == [interrupted |-> FALSE, command |-> istate.command]

\* InterruptController.clear
Cleared == [interrupted |-> FALSE, command |-> None]

\* the commands signal_interrupt is called with
Commands == {"stop", "go", "", None}

\* signal_interrupt that keeps the command of the first signal
SignalledKeepsFirst(command) ==
    IF istate.interrupted THEN istate
    ELSE [interrupted |-> TRUE, command |-> command]

\* InterruptController.signal_interrupt
Signalled(command) == [interrupted |-> TRUE, command |-> command]

\* check_interrupt that resets the flag it has read
AfterCheckAutoClears(s) == [interrupted |-> FALSE, command |-> None]

\* InterruptController.check_interrupt returns the pair and assigns nothing
AfterCheck(s) == s

\* _run_orchestrator, lines 202-204
InterruptReason(command) ==
    IF command \in {None, ""}
    THEN [text |-> "Interrupted by user command", command |-> ""]
    ELSE [text |-> "Interrupted by command: ", command |-> command]

PlainReason(text) == [text |-> text, command |-> ""]

\* _update_budget_usage._extract: the value found under key, or None
Extract(out, key) ==
    IF out.shape \in {"ReportData", "model", "dict"} /\ key \in out.keys
    THEN (IF key = "searches_performed" THEN out.searches_performed
          ELSE out.iterations)
    ELSE -1

\* _update_budget_usage adding the reported counts to the counters
UpdateBudgetUsageAccumulates(b, out) ==
    [searches_used |-> IF "searches_performed" \in out.keys
                          /\ out.shape \in {"ReportData", "model", "dict"}
                       THEN b.searches_used + Extract(out, "searches_performed")
                       ELSE b.searches_used,
     iterations_used |-> IF "iterations" \in out.keys
                            /\ out.shape \in {"ReportData", "model", "dict"}
                         THEN b.iterations_used + Extract(out, "iterations")
                         ELSE b.iterations_used]

\* _update_budget_usage
UpdateBudgetUsage(b, out) ==
    [searches_used |-> IF "searches_performed" \in out.keys
                          /\ out.shape \in {"ReportData", "model", "dict"}
                       THEN Extract(out, "searches_performed")
                       ELSE b.searches_used,
     iterations_used |-> IF "iterations" \in out.keys
                            /\ out.shape \in {"ReportData", "model", "dict"}
                         THEN Extract(out, "iterations")
                         ELSE b.iterations_used]

\* _extract_report with the isinstance test alone
ExtractReportOfInstances(out) == out.shape = "ReportData"

\* _extract_report: TRUE when a ReportData is returned
ExtractReport(out) ==
    \/ out.shape = "ReportData"
    \/ (out.shape \in {"model", "dict"} /\ ReportKeys \subseteq out.keys)

\* lines 208 and 243 with the counter left out
RemainingSearchesOfStart(b) == request.line.config.max_searches

\* _run_orchestrator, lines 208-209 and 243-244
RemainingSearches(b) == request.line.config.max_searches - b.searches_used
RemainingIterations(b) == request.line.config.max_iterations - b.iterations_used

\* the content of a prompt: the query and the context built from the answers
Content(query, ctx) == [query |-> query, header |-> ctx.header, items |-> ctx.items]
NoContext == [exc |-> "ok", header |-> FALSE, items |-> <<>>]
\* the content of a raw_response: the dumped output or "[error: e]"
OutputContent(out) == [kind |-> "output", output |-> out, error |-> {}]
ErrorContent(e) == [kind |-> "error", output |-> NoOutput, error |-> e]

(***************************************************************************)
(* runner.py: async_main                                                   *)
(***************************************************************************)
NoRequest == [valid |-> FALSE, line |-> BlankLine]

\* nothing has happened yet
NoHistory ==
    [calls |-> 0, op |-> "none", signalled |-> FALSE, signal |-> None,
     signals |-> 0, clears |-> 0, ignored |-> FALSE, recovered |-> FALSE,
     answered |-> FALSE, answers |-> BlankLine]

\* sys.stdin.readline(): a line is returned from the buffer if it holds one;
\* if not, everything the pipe holds is read into the buffer and its first
\* line returned; '' at end of input
Readable == buffered # <<>> \/ stdin # <<>> \/ eof
NextLine ==
    IF buffered # <<>> THEN Head(buffered)
    ELSE IF stdin # <<>> THEN Head(stdin)
    ELSE BlankLine
BufferedRest ==
    IF buffered # <<>> THEN Tail(buffered)
    ELSE IF stdin # <<>> THEN Tail(stdin)
    ELSE <<>>
PipeRest == IF buffered # <<>> THEN stdin ELSE <<>>

\* read_stdin_line_with_timeout, line 147: select reports the pipe readable
\* when it holds data or is at its end, whatever the buffer holds
SelectReady == stdin # <<>> \/ eof

\* async_main, lines 287-289
TopLevelError(e) == <<Error(e, "RUNTIME_ERROR"), Done(FALSE)>>

\* async_main, lines 278-289: the finally block that stops the listener and
\* what is emitted after it; exc is the exception in flight ({} for none)
AfterResearch(exc) ==
    IF listener = "crashed"
    THEN TopLevelError(PyError("AttributeError"))
    ELSE IF exc = {} THEN <<Done(TRUE)>> ELSE TopLevelError(exc)
ListenerAfterResearch == IF listener = "crashed" THEN "crashed" ELSE "cancelled"

\* async_main, lines 250-268, with run_clarify and clarify up to the await
ReadRequest ==
    /\ pc = "start"
    /\ Readable
    /\ stdin' = PipeRest
    /\ buffered' = BufferedRest
    /\ LET line == NextLine
           exc == ParseRequest(line)
       IN IF line.json = "blank"
          THEN /\ stdout' = stdout \o <<Error(PyError("No input received"), "NO_INPUT"),
                                        Done(FALSE)>>
               /\ pc' = "exit"
               /\ request' = [valid |-> FALSE, line |-> line]
               /\ UNCHANGED <<sequence, inv, stderr>>
          ELSE IF exc = "ok"
          THEN /\ request' = [valid |-> TRUE, line |-> line]
               /\ sequence' = NextSequence(sequence)
               /\ stdout' = stdout \o
                     <<Status("Generating clarifying questions..."),
                       Prompt("clarifier", NextSequence(sequence),
                              Content(line.query, NoContext))>>
               /\ inv' = StartRun("clarifier", DefaultMaxRetries)
               /\ stderr' = Append(stderr, LogRunning("clarifier", 0, DefaultMaxRetries))
               /\ pc' = "clarifying"
          ELSE IF CaughtByParseHandler(exc)
          THEN /\ stdout' = stdout \o <<Error(PyError(exc), "INVALID_REQUEST"),
                                        Done(FALSE)>>
               /\ pc' = "exit"
               /\ request' = [valid |-> FALSE, line |-> line]
               /\ UNCHANGED <<sequence, inv, stderr>>
          ELSE /\ pc' = "crashed"
               /\ request' = [valid |-> FALSE, line |-> line]
               /\ UNCHANGED <<stdout, sequence, inv, stderr>>
    /\ UNCHANGED <<eof, sent, istate, observed, listener, budget, hist>>

\* clarify, lines 117-130, after agent_runner.run has returned or raised
ClarifyReturns ==
    /\ pc = "clarifying"
    /\ inv.st \in {"returned", "raised"}
    /\ IF inv.st = "returned"
       THEN /\ stdout' = stdout \o
                  <<RawResponse("clarifier", sequence, OutputContent(inv.result)),
                    ClarifyingQuestions>>
            /\ pc' = "awaiting_answers"
       ELSE /\ stdout' = stdout \o TopLevelError(inv.error)
            /\ pc' = "exit"
    /\ UNCHANGED <<stdin, eof, sent, stderr, request, sequence, istate,
                   observed, inv, listener, budget, hist, buffered>>

\* async_main, lines 271-277, with run_research and ResearchManager.run up to
\* the first await of _run_orchestrator (line 188)
ReadAnswers ==
    /\ pc = "awaiting_answers"
    /\ Readable
    /\ stdin' = PipeRest
    /\ buffered' = BufferedRest
    /\ LET r == ReadClarifyingAnswers(NextLine)
           ctx == BuildContext(r.answers)
       IN IF r.exc # "ok"
          THEN /\ stdout' = stdout \o TopLevelError(PyError(r.exc))
               /\ pc' = "exit"
               /\ UNCHANGED <<sequence, inv, stderr, listener>>
          ELSE IF ctx.exc # "ok"
          THEN /\ stdout' = stdout \o <<Trace>> \o TopLevelError(PyError(ctx.exc))
               /\ listener' = "cancelled"
               /\ pc' = "exit"
               /\ UNCHANGED <<sequence, inv, stderr>>
          ELSE /\ sequence' = NextSequence(sequence)
               /\ stdout' = stdout \o
                     <<Trace,
                       Status("Starting agentic research loop..."),
                       Decision("start",
                                PlainReason("Beginning research with orchestrator agent"),
                                request.line.config.max_searches,
                                request.line.config.max_iterations),
                       Prompt("orchestrator", NextSequence(sequence),
                              Content(request.line.query, ctx))>>
               /\ inv' = StartRun("orchestrator", DefaultMaxRetries)
               /\ stderr' = Append(stderr,
                                   LogRunning("orchestrator", 0, DefaultMaxRetries))
               /\ listener' = "running"
               /\ pc' = "polling"
    /\ hist' = [hist EXCEPT !.answered = TRUE, !.answers = NextLine]
    /\ UNCHANGED <<eof, sent, request, istate, observed, budget>>

\* _run_orchestrator, lines 202-212, then run_research line 234
InterruptEvents(command, b) ==
    <<Decision("interrupt", InterruptReason(command),
               RemainingSearches(b), RemainingIterations(b)),
      Status("Research interrupted"),
      Metadata>>

\* lines 218-254 with an exception raised after the response was yielded: the
\* handler of line 248 yields the error response for the same sequence
CompletionEventsThenError(out, b) ==
    <<RawResponse("orchestrator", sequence, OutputContent(out)),
      RawResponse("orchestrator", sequence, ErrorContent({})),
      Metadata>>

\* lines 218-246 with the decision yielded whether or not a report was found
CompletionEventsWithDecision(out, b) ==
    <<RawResponse("orchestrator", sequence, OutputContent(out))>>
    \o (IF ExtractReport(out)
        THEN <<Status("Research complete"), Report(out)>>
        ELSE <<>>)
    \o <<Decision("complete",
                  PlainReason("Orchestrator finished without explicit handoff to writer"),
                  RemainingSearches(b), RemainingIterations(b)),
          Status("Research complete (orchestrator loop ended)"),
          Metadata>>

\* _run_orchestrator, lines 218-246, then run_research line 234
CompletionEvents(out, b) ==
    <<RawResponse("orchestrator", sequence, OutputContent(out))>>
    \o (IF ExtractReport(out)
        THEN <<Status("Research complete"), Report(out)>>
        ELSE <<Decision("complete",
                        PlainReason("Orchestrator finished without explicit handoff to writer"),
                        RemainingSearches(b), RemainingIterations(b)),
               Status("Research complete (orchestrator loop ended)")>>)
    \o <<Metadata>>

\* lines 248-254 with the exception swallowed: the loop goes on to line 240
FailureEventsThenComplete(e) ==
    <<RawResponse("orchestrator", sequence, ErrorContent(e)),
      Decision("complete",
               PlainReason("Orchestrator finished without explicit handoff to writer"),
               RemainingSearches(budget), RemainingIterations(budget))>>

\* _run_orchestrator, lines 248-254
FailureEvents(e) == <<RawResponse("orchestrator", sequence, ErrorContent(e))>>

\* lines 194-215 with the test of line 214 made before the one of line 195
InterruptBranchAfterCompletion(s, st) ==
    s.interrupted /\ st \notin {"returned", "raised"}

\* _run_orchestrator, lines 194-195: the flag is tested first, whatever the
\* state st of the task
InterruptBranch(s, st) == s.interrupted

\* _run_orchestrator, lines 188-216: asyncio.wait returns, the interrupt flag
\* is checked, then the task's completion
PollWake ==
    /\ pc = "polling"
    /\ observed' = istate
    /\ IF InterruptBranch(istate, inv.st)
       THEN IF inv.st = "returned"
            THEN /\ stdout' = stdout \o InterruptEvents(istate.command, budget)
                                     \o AfterResearch({})
                 /\ listener' = ListenerAfterResearch
                 /\ pc' = "exit"
                 /\ UNCHANGED <<inv, budget>>
            ELSE IF inv.st = "raised"
            THEN /\ stdout' = stdout \o FailureEvents(inv.error)
                                     \o AfterResearch(inv.error)
                 /\ listener' = ListenerAfterResearch
                 /\ pc' = "exit"
                 /\ UNCHANGED <<inv, budget>>
            ELSE /\ inv' = [inv EXCEPT !.cancel = TRUE]
                 /\ pc' = "awaiting_cancel"
                 /\ UNCHANGED <<stdout, listener, budget>>
       ELSE IF inv.st = "returned"
            THEN /\ budget' = UpdateBudgetUsage(budget, inv.result)
                 /\ stdout' = stdout
                        \o CompletionEvents(inv.result,
                                            UpdateBudgetUsage(budget, inv.result))
                        \o AfterResearch({})
                 /\ listener' = ListenerAfterResearch
                 /\ pc' = "exit"
                 /\ UNCHANGED inv
            ELSE IF inv.st = "raised"
            THEN /\ stdout' = stdout \o FailureEvents(inv.error)
                                     \o AfterResearch(inv.error)
                 /\ listener' = ListenerAfterResearch
                 /\ pc' = "exit"
                 /\ UNCHANGED <<inv, budget>>
            ELSE UNCHANGED <<stdout, listener, pc, inv, budget>>
    /\ UNCHANGED <<stdin, eof, sent, stderr, request, sequence, istate, hist, buffered>>

\* line 125 catching CancelledError with the other exceptions, as it would if
\* CancelledError were an Exception: the failure is taken for one to retry
AfterCancelRetried(i) ==
    [i EXCEPT !.st = "running", !.attempt = i.attempt + 1, !.cancel = FALSE]

\* AgentRunner.run, lines 114, 125 and 133: CancelledError is a BaseException,
\* the handler of line 125 lets it through and run ends with it
AfterCancel(i) == [i EXCEPT !.st = "cancelled", !.delay = 0]

\* the cancelled orchestration task takes CancelledError at its await point
\* (Runner.run at line 114 or asyncio.sleep at line 133)
TaskCancelled ==
    /\ pc = "awaiting_cancel"
    /\ inv.cancel
    /\ inv.st \in {"running", "sleeping"}
    /\ inv' = AfterCancel(inv)
    /\ UNCHANGED <<stdin, eof, sent, pc, stdout, stderr, request, sequence,
                   istate, observed, listener, budget, hist, buffered>>

\* lines 196-200 without the await: the decision follows cancel() at once
TaskDoneNotAwaited(st) == TRUE

\* line 198: await orchestrator_task returns once the task is over
TaskDone(st) == st \in {"returned", "raised", "cancelled"}

\* _run_orchestrator, lines 198-212: the await on the cancelled task returns
CancelAwaited ==
    /\ pc = "awaiting_cancel"
    /\ TaskDone(inv.st)
    /\ stdout' = stdout \o InterruptEvents(observed.command, budget)
                        \o AfterResearch({})
    /\ listener' = ListenerAfterResearch
    /\ pc' = "exit"
    /\ UNCHANGED <<stdin, eof, sent, stderr, request, sequence, istate,
                   observed, inv, budget, hist, buffered>>

\* interrupt_listener: one turn of the loop that finds a line to read
ListenerTurn ==
    /\ listener = "running"
    /\ pc \in {"polling", "awaiting_cancel"}
    /\ SelectReady
    /\ buffered # <<>> \/ stdin # <<>>
    /\ stdin' = PipeRest
    /\ buffered' = BufferedRest
    /\ LET r == ListenerReads(NextLine)
       IN /\ istate' = IF r.do = "signal" THEN Signalled(r.command) ELSE istate
          /\ listener' = IF r.do = "raise" THEN "crashed" ELSE listener
          /\ hist' = IF r.do = "signal"
                      THEN [hist EXCEPT !.signalled = TRUE, !.signal = r.command,
                                        !.recovered = hist.ignored]
                      ELSE IF NextLine.json = "malformed"
                      THEN [hist EXCEPT !.ignored = TRUE]
                      ELSE hist
    /\ UNCHANGED <<eof, sent, pc, stdout, stderr, request, sequence,
                   observed, inv, budget>>

(***************************************************************************)
(* The parent process                                                      *)
(***************************************************************************)
Running == pc \in {"start", "clarifying", "awaiting_answers", "polling",
                   "awaiting_cancel"}

\* the commands of the interrupt lines among a set of lines
IsInterrupt(line) == line.json = "object" /\ line.type = "interrupt"

\* the record of a written line: an interrupt line written while the
\* clarification runs or the answers are awaited is counted in early, one that
\* is written while the orchestration task is still at work in research
Sent(line) ==
    [n |-> sent.n + 1,
     early |-> sent.early
               \cup (IF IsInterrupt(line) /\ pc \in {"clarifying", "awaiting_answers"}
                     THEN {line.command} ELSE {}),
     research |-> sent.research
               \cup (IF IsInterrupt(line) /\ pc = "polling"
                        /\ inv.st \in {"running", "sleeping"}
                     THEN {line.command} ELSE {})]

ParentWrites ==
    /\ Running
    /\ ~eof
    /\ sent.n < MaxLines
    /\ Len(stdin) < MaxQueue
    /\ \E line \in (IF sent.n = 0 THEN Lines ELSE LaterLines(sent.n)) :
          /\ stdin' = Append(stdin, line)
          /\ sent' = Sent(line)
    /\ UNCHANGED <<eof, pc, stdout, stderr, request, sequence, istate,
                   observed, inv, listener, budget, hist, buffered>>

ParentCloses ==
    /\ Running
    /\ ~eof
    /\ eof' = TRUE
    /\ UNCHANGED <<stdin, sent, pc, stdout, stderr, request, sequence, istate,
                   observed, inv, listener, budget, hist, buffered>>

(***************************************************************************)
(* Specifications                                                          *)
(***************************************************************************)
Init ==
    /\ stdin = <<>>
    /\ eof = FALSE
    /\ sent = [n |-> 0, early |-> {}, research |-> {}]
    /\ pc = "start"
    /\ stdout = <<>>
    /\ stderr = <<>>
    /\ request = NoRequest
    /\ sequence = 0
    /\ istate = Constructed
    /\ observed = Constructed
    /\ inv = Idle
    /\ listener = "notstarted"
    /\ budget = [searches_used |-> 0, iterations_used |-> 0]
    /\ hist = NoHistory
    /\ buffered = <<>>

Next ==
    \/ ParentWrites
    \/ ParentCloses
    \/ ReadRequest
    \/ RunnerSucceeds
    \/ RunnerFails
    \/ SleepElapses
    \/ ClarifyReturns
    \/ ReadAnswers
    \/ PollWake
    \/ TaskCancelled
    \/ CancelAwaited
    \/ ListenerTurn

Spec == Init /\ [][Next]_vars

\* the listener's loop comes round every 50 ms (runner.py:172) for as long as
\* the research lasts: a line it can read is read in the end
SpecFair == Spec /\ WF_vars(ListenerTurn)

\* AgentRunner.run on its own, for every max_retries in 0..MaxRetriesBound
InitInvoker ==
    /\ stdin = <<>>
    /\ eof = FALSE
    /\ sent = [n |-> 0, early |-> {}, research |-> {}]
    /\ pc = "invoker"
    /\ stdout = <<>>
    /\ request = NoRequest
    /\ sequence = 0
    /\ istate = Constructed
    /\ observed = Constructed
    /\ listener = "notstarted"
    /\ budget = [searches_used |-> 0, iterations_used |-> 0]
    /\ hist = NoHistory
    /\ buffered = <<>>
    /\ \E r \in 0..MaxRetriesBound :
          /\ inv = StartRun("orchestrator", r)
          /\ stderr = <<LogRunning("orchestrator", 0, r)>>

NextInvoker == RunnerSucceeds \/ RunnerFails \/ SleepElapses

SpecInvoker == InitInvoker /\ [][NextInvoker]_vars

\* the outputs _update_budget_usage is called with when it is checked on its
\* own: those of the workflow and two more, one with iterations alone
BudgetOutputs ==
    Outputs \cup { Out("dict", {"iterations"}, 0, 3),
                   Out("model", {"searches_performed", "iterations"}, 1, 2) }

\* a ResearchManager just constructed, for calls of _update_budget_usage
InitBudget ==
    /\ stdin = <<>>
    /\ eof = FALSE
    /\ sent = [n |-> 0, early |-> {}, research |-> {}]
    /\ pc = "budget"
    /\ stdout = <<>>
    /\ stderr = <<>>
    /\ request = NoRequest
    /\ sequence = 0
    /\ istate = Constructed
    /\ observed = Constructed
    /\ inv = Idle
    /\ listener = "notstarted"
    /\ budget = [searches_used |-> 0, iterations_used |-> 0]
    /\ hist = NoHistory
    /\ buffered = <<>>

\* self._update_budget_usage(output)
UpdateFrom ==
    /\ pc = "budget"
    /\ hist.calls < MaxUpdates
    /\ \E out \in BudgetOutputs :
          /\ budget' = UpdateBudgetUsage(budget, out)
          /\ inv' = [inv EXCEPT !.result = out]
    /\ hist' = [hist EXCEPT !.calls = hist.calls + 1, !.op = "update"]
    /\ UNCHANGED <<stdin, eof, sent, pc, stdout, stderr, request, sequence,
                   istate, observed, listener, buffered>>

\* the workflow, and beside it _update_budget_usage called up to MaxUpdates
\* times in a row on a manager of its own
SpecBudget == (Init \/ InitBudget) /\ [][Next \/ UpdateFrom]_vars

\* the InterruptController on its own: any MaxCalls calls of its three methods.
\* Each method runs between two suspension points of the event loop: the lock
\* is free whenever a task runs, so its acquire does not suspend, and the body
\* holds no await.
InitController ==
    /\ stdin = <<>>
    /\ eof = FALSE
    /\ sent = [n |-> 0, early |-> {}, research |-> {}]
    /\ pc = "controller"
    /\ stdout = <<>>
    /\ stderr = <<>>
    /\ request = NoRequest
    /\ sequence = 0
    /\ istate = Constructed
    /\ observed = Constructed
    /\ inv = Idle
    /\ listener = "notstarted"
    /\ budget = [searches_used |-> 0, iterations_used |-> 0]
    /\ hist = NoHistory
    /\ buffered = <<>>

\* one more call is made
ControllerCalled == pc = "controller" /\ hist.calls < MaxCalls

\* await controller.signal_interrupt(command)
ControllerSignal ==
    /\ ControllerCalled
    /\ \E command \in Commands :
          /\ istate' = Signalled(command)
          /\ hist' = [hist EXCEPT !.calls = hist.calls + 1, !.op = "signal",
                                   !.signalled = TRUE, !.signal = command,
                                   !.signals = hist.signals + 1]
    /\ UNCHANGED <<stdin, eof, sent, pc, stdout, stderr, request, sequence,
                   observed, inv, listener, budget, buffered>>

\* await controller.check_interrupt()
ControllerCheck ==
    /\ ControllerCalled
    /\ observed' = istate
    /\ istate' = AfterCheck(istate)
    /\ hist' = [hist EXCEPT !.calls = hist.calls + 1, !.op = "check"]
    /\ UNCHANGED <<stdin, eof, sent, pc, stdout, stderr, request, sequence,
                   inv, listener, budget, buffered>>

\* await controller.clear()
ControllerClear ==
    /\ ControllerCalled
    /\ istate' = Cleared
    /\ hist' = [hist EXCEPT !.calls = hist.calls + 1, !.op = "clear",
                             !.signalled = FALSE, !.signal = None,
                             !.clears = hist.clears + 1]
    /\ UNCHANGED <<stdin, eof, sent, pc, stdout, stderr, request, sequence,
                   observed, inv, listener, budget, buffered>>

NextController == ControllerSignal \/ ControllerCheck \/ ControllerClear

SpecController == InitController /\ [][NextController]_vars

TypeOK ==
    /\ pc \in {"start", "clarifying", "awaiting_answers", "polling",
               "awaiting_cancel", "exit", "crashed", "invoker", "controller",
               "budget"}
    /\ listener \in {"notstarted", "running", "crashed", "cancelled"}
    /\ inv.st \in {"idle", "running", "sleeping", "returned", "raised", "cancelled"}
    /\ sent.n <= MaxLines
    /\ Len(stdin) <= MaxQueue
    /\ sequence \in 0..2

(***************************************************************************)
(* The protocol stream, as the claims read it                              *)
(***************************************************************************)
Positions(type) == {i \in 1..Len(stdout) : stdout[i].type = type}
Ended == pc \in {"exit", "crashed"}
EndsWithDone == stdout # <<>> /\ stdout[Len(stdout)].type = "done"
EndsWith(success) == EndsWithDone /\ stdout[Len(stdout)].success = success
InterruptDecisions ==
    {i \in Positions("decision") : stdout[i].action = "interrupt"}

(***************************************************************************)
(* C1                                                                      *)
(***************************************************************************)
\* C1: for every valid request, whatever the invocations do, the stream of a
\* finished run holds exactly one metadata and exactly one done message, and
\* done is the last message.
C1_OneMetadataOneDone ==
    (Ended /\ request.valid) =>
        /\ Cardinality(Positions("metadata")) = 1
        /\ Cardinality(Positions("done")) = 1
        /\ EndsWithDone

(***************************************************************************)
(* C2                                                                      *)
(***************************************************************************)
\* C2: for every first input line and every outcome of the later phases, the
\* process ends with a done message as its final output line.
C2_AlwaysEndsWithDone == Ended => EndsWithDone

(***************************************************************************)
(* C3                                                                      *)
(***************************************************************************)
\* the first lines C3 is about: not JSON, a version other than "v1", or no
\* run_id or no query
C3_Rejected(line) ==
    \/ line.json = "malformed"
    \/ /\ line.json = "object"
       /\ (line.version # "v1" \/ line.run_id = Absent \/ line.query = Absent)

\* C3: if the first line is not valid JSON, has a version other than "v1" or
\* lacks run_id or query, the output is exactly error INVALID_REQUEST then
\* done success=false, and nothing else happens: no capability is invoked.
C3_InvalidRequestRejected ==
    (Ended /\ C3_Rejected(request.line)) =>
        /\ Len(stdout) = 2
        /\ stdout[1].type = "error" /\ stdout[1].code = "INVALID_REQUEST"
        /\ stdout[2] = Done(FALSE)
        /\ stderr = <<>>
        /\ inv = Idle

(***************************************************************************)
(* C4                                                                      *)
(***************************************************************************)
\* C4: the sequence numbers of the prompt messages are strictly increasing in
\* stream order, and every raw_response with sequence n comes after the
\* prompt with sequence n.
C4_SequenceOrder ==
    /\ \A i, j \in Positions("prompt") :
          i < j => stdout[i].sequence < stdout[j].sequence
    /\ \A i \in Positions("raw_response") :
          \E j \in Positions("prompt") :
              j < i /\ stdout[j].sequence = stdout[i].sequence

\* a finished run with the prompts and responses of both phases
C4_Witness ==
    /\ pc = "exit"
    /\ Cardinality(Positions("prompt")) = 2
    /\ Cardinality(Positions("raw_response")) = 2

(***************************************************************************)
(* C5                                                                      *)
(***************************************************************************)
\* C5: in every run that has emitted done, each prompt with sequence n has a
\* matching raw_response with sequence n earlier in the stream than done.
C5_EveryPromptAnswered ==
    (pc = "exit" /\ EndsWithDone) =>
        \A i \in Positions("prompt") :
            \E j \in Positions("raw_response") :
                /\ stdout[j].sequence = stdout[i].sequence
                /\ j < Len(stdout)

(***************************************************************************)
(* C6                                                                      *)
(***************************************************************************)
\* C6: when a capability invocation has failed for good, in the clarification
\* or the research phase, the stream holds a raw_response for that phase's
\* sequence number whose content embeds the error text, then error with code
\* RUNTIME_ERROR, then done success=false.
C6_FailureSurfaces ==
    (pc = "exit" /\ inv.st = "raised") =>
        \E i \in Positions("raw_response") :
            /\ stdout[i].sequence = sequence
            /\ stdout[i].content.kind = "error"
            /\ stdout[i].content.error = inv.error
            /\ \E j \in Positions("error") :
                  /\ i < j
                  /\ stdout[j].code = "RUNTIME_ERROR"
                  /\ \E k \in Positions("done") :
                        j < k /\ stdout[k].success = FALSE

(***************************************************************************)
(* C7                                                                      *)
(***************************************************************************)
\* the non-empty commands of the interrupt lines that were written after the
\* answers line was read and before the orchestration task finished
C7_Commands == sent.research \ {"", Absent}

\* C7: if an interrupt line with a non-empty command c arrives after the
\* answers line was read and before the orchestration task finishes, the
\* stream of the finished run holds a decision with action "interrupt" and
\* reason "Interrupted by command: c", later done success=true, and no report.
C7_ArrivedInterruptHonoured ==
    (pc = "exit" /\ C7_Commands # {}) =>
        /\ \E i \in InterruptDecisions :
              /\ stdout[i].reason.text = "Interrupted by command: "
              /\ stdout[i].reason.command \in C7_Commands
              /\ \E k \in Positions("done") : i < k /\ stdout[k].success
        /\ Positions("report") = {}

(***************************************************************************)
(* C8                                                                      *)
(***************************************************************************)
\* C8: whenever the research loop has observed the interrupt flag set, the run
\* ends with metadata then done success=true and emits no error, whatever
\* state the orchestration task was in.
C8_InterruptNeverAnError ==
    (pc = "exit" /\ observed.interrupted) =>
        /\ Positions("error") = {}
        /\ Len(stdout) >= 2
        /\ stdout[Len(stdout) - 1].type = "metadata"
        /\ EndsWith(TRUE)

(***************************************************************************)
(* C9                                                                      *)
(***************************************************************************)
\* C9: an interrupt line written while the clarification invocation runs or
\* while the process waits for the answers line is recorded in InterruptState
\* and the run ends with a decision of action "interrupt" and without a
\* report.  Stated for the runs that end with done success=true, where no
\* failure of another kind has ended the run first.
C9_CancellableAtAnyPoint ==
    (pc = "exit" /\ request.valid /\ sent.early # {} /\ EndsWith(TRUE)) =>
        /\ istate.interrupted
        /\ InterruptDecisions # {}
        /\ Positions("report") = {}

(***************************************************************************)
(* C10                                                                     *)
(***************************************************************************)
\* what stderr tells of one call of AgentRunner.run: the attempts started and
\* the messages of the failed attempts, in order
IsAttempt(l) == l.msg = "running"
IsFailure(l) == l.msg \in {"retrying", "permanent"}
Attempts == Len(SelectSeq(stderr, IsAttempt))
Failures == SelectSeq(stderr, IsFailure)
Min(a, b) == IF a < b THEN a ELSE b

\* the number of consecutive failures classified retryable the call began with
RECURSIVE LeadingRetryable(_)
LeadingRetryable(fs) ==
    IF fs = <<>> \/ ~ShouldRetry(Head(fs).e) THEN 0
    ELSE 1 + LeadingRetryable(Tail(fs))

\* C10: for every max_retries >= 0 and every sequence of attempt outcomes,
\* AgentRunner.run makes at most max_retries + 1 attempts; once it is over it
\* has retried exactly min(k, max_retries) times, k being the consecutive
\* retryable failures; and a failure classified non-retryable is the last
\* thing that happens: the call raises at that attempt, with no further one.
C10_BoundedClassifiedRetries ==
    /\ Attempts <= inv.retries + 1
    /\ inv.st \in {"returned", "raised"} =>
          Attempts - 1 = Min(LeadingRetryable(Failures), inv.retries)
    /\ \A i \in 1..Len(Failures) :
          ~ShouldRetry(Failures[i].e) =>
              /\ i = Len(Failures)
              /\ inv.st = "raised"
              /\ inv.error = Failures[i].e
              /\ Attempts = i

\* a call that raised on a non-retryable failure after retryable ones
C10_Witness ==
    /\ pc = "invoker"
    /\ inv.st = "raised"
    /\ ~ShouldRetry(inv.error)
    /\ Attempts >= 2
    /\ Attempts <= inv.retries

(***************************************************************************)
(* C11                                                                     *)
(***************************************************************************)
IsRetrying(l) == l.msg = "retrying"
\* the sleeps AgentRunner.run has taken or is taking, in order
Sleeps == SelectSeq(stderr, IsRetrying)

\* C11: the delay before retry i (counted from 0) is 2^i seconds plus a
\* jitter in [0, 0.5): the delays' bases are 1, 2, 4, ... in order; nothing
\* is slept after the attempt that raises; and a capability that fails with
\* "503" four times under max_retries = 3 raises at the fourth attempt after
\* exactly three sleeps of bases 1, 2 and 4.
C11_BackoffSchedule ==
    /\ \A i \in 1..Len(Sleeps) :
          /\ Sleeps[i].n = 2 ^ (i - 1)
          /\ Sleeps[i].delay >= Sleeps[i].n * TicksPerSecond
          /\ 2 * (Sleeps[i].delay - Sleeps[i].n * TicksPerSecond) < TicksPerSecond
    /\ inv.st = "sleeping" => inv.delay = Sleeps[Len(Sleeps)].delay
    /\ inv.st = "raised" =>
          /\ inv.delay = 0
          /\ stderr[Len(stderr)].msg = "permanent"
          /\ Len(Sleeps) = Len(Failures) - 1
    /\ ( /\ inv.retries = DefaultMaxRetries
         /\ Len(Failures) = DefaultMaxRetries + 1
         /\ \A i \in 1..Len(Failures) : Failures[i].e = {"503"} ) =>
          /\ inv.st = "raised"
          /\ Attempts = 4
          /\ [i \in 1..Len(Sleeps) |-> Sleeps[i].n] = <<1, 2, 4>>

\* "503" four times under max_retries = 3, with a jitter above zero
C11_Witness ==
    /\ pc = "invoker"
    /\ inv.retries = 3
    /\ inv.st = "raised"
    /\ Len(Failures) = 4
    /\ \A i \in 1..4 : Failures[i].e = {"503"}
    /\ \E i \in 1..3 : Sleeps[i].delay > Sleeps[i].n * TicksPerSecond

(***************************************************************************)
(* C12                                                                     *)
(***************************************************************************)
\* the context run() builds from the line read_clarifying_answers read
AnswersContext == BuildContext(ReadClarifyingAnswers(hist.answers).answers)

\* the stream of a run whose two invocations both succeed at the first
\* attempt, up to the orchestrator's prompt
CleanOpening ==
    <<Status("Generating clarifying questions..."),
      Prompt("clarifier", 1, Content(request.line.query, NoContext)),
      RawResponse("clarifier", 1, OutputContent(ClarifierOutput)),
      ClarifyingQuestions,
      Trace,
      Status("Starting agentic research loop..."),
      Decision("start", PlainReason("Beginning research with orchestrator agent"),
               request.line.config.max_searches, request.line.config.max_iterations),
      Prompt("orchestrator", 2, Content(request.line.query, AnswersContext))>>

HasRetried(agent) ==
    \E i \in 1..Len(stderr) : stderr[i].msg = "retrying" /\ stderr[i].agent = agent

\* C12: retryable failures recovered inside AgentRunner.run do not show in
\* the protocol stream: whatever number of attempts the two invocations took,
\* a run whose invocations returned ends with the very stream of a run in
\* which each invocation succeeded at once -- one prompt and one raw_response
\* per sequence, no error, nothing per attempt.
C12_RecoveredRetriesInvisible ==
    ( /\ pc = "exit"
      /\ inv.agent = "orchestrator"
      /\ inv.st = "returned"
      /\ listener # "crashed" ) =>
        stdout = CleanOpening
                 \o (IF observed.interrupted
                     THEN InterruptEvents(observed.command, budget)
                     ELSE CompletionEvents(inv.result, budget))
                 \o <<Done(TRUE)>>

\* a finished run in which both invocations recovered from a failure
C12_Witness ==
    /\ pc = "exit"
    /\ inv.st = "returned"
    /\ inv.attempt >= 1
    /\ HasRetried("clarifier")
    /\ HasRetried("orchestrator")
    /\ ~observed.interrupted
    /\ listener # "crashed"
    /\ Positions("report") # {}

(***************************************************************************)
(* C13                                                                     *)
(***************************************************************************)
IsOrchestratorPrompt(m) == m.type = "prompt" /\ m.agent = "orchestrator"
IsCompleteDecision(m) == m.type = "decision" /\ m.action = "complete"

\* C13: once an invocation has raised, no later phase starts.  After a failed
\* clarification the run never waits for answers nor researches, and its
\* stream holds no clarifying_questions, no decision, no orchestrator prompt
\* and no report; after a failed orchestration the stream holds no report and
\* no decision of action "complete".
C13_NoPartialSuccess ==
    /\ (inv.agent = "clarifier" /\ inv.st = "raised") =>
          /\ pc \in {"clarifying", "exit"}
          /\ listener = "notstarted"
          /\ Positions("clarifying_questions") = {}
          /\ Positions("decision") = {}
          /\ Positions("report") = {}
          /\ \A i \in 1..Len(stdout) : ~IsOrchestratorPrompt(stdout[i])
    /\ (inv.agent = "orchestrator" /\ inv.st = "raised" /\ pc # "invoker") =>
          /\ pc \in {"polling", "exit"}
          /\ Positions("report") = {}
          /\ \A i \in 1..Len(stdout) : ~IsCompleteDecision(stdout[i])

\* a run that ended on a failed orchestration, the failure reported
C13_Witness ==
    /\ pc = "exit"
    /\ inv.agent = "orchestrator"
    /\ inv.st = "raised"
    /\ Positions("error") # {}
    /\ Positions("clarifying_questions") # {}

(***************************************************************************)
(* C14                                                                     *)
(***************************************************************************)
\* C14: after any number of signal calls followed by clear(), check() returns
\* (false, null): a check made while no signal has come since the last clear
\* or since construction reads (false, null), and every clear(), the first,
\* a repeated one or one with no signal before it, leaves (false, null).
C14_ClearResets ==
    /\ (hist.op = "check" /\ ~hist.signalled) =>
          observed = [interrupted |-> FALSE, command |-> None]
    /\ hist.op = "clear" =>
          istate = [interrupted |-> FALSE, command |-> None]

\* signals, then clear twice, then a check
C14_Witness ==
    /\ hist.op = "check"
    /\ hist.signals >= 2
    /\ hist.clears >= 2
    /\ ~hist.signalled
    /\ observed = [interrupted |-> FALSE, command |-> None]

(***************************************************************************)
(* C15                                                                     *)
(***************************************************************************)
\* C15: under any order of signal, check and clear calls, check() returns
\* (true, c) with c the command of the most recent signal since the last
\* clear, and (false, null) when there is none; the flag is never false with
\* a command left; check() changes nothing, so a flag that is set stays set
\* until clear() is called.
C15_LatestCommandReadOnlyCheck ==
    /\ hist.op = "check" =>
          /\ observed = [interrupted |-> hist.signalled, command |-> hist.signal]
          /\ istate = observed
    /\ ~istate.interrupted => istate.command = None
    /\ pc = "controller" => (istate.interrupted <=> hist.signalled)
    /\ (pc = "controller" /\ hist.signalled) => istate.command = hist.signal

\* two signals with different commands, checked twice: the second command
C15_Witness ==
    /\ hist.op = "check"
    /\ hist.signals >= 2
    /\ hist.clears >= 1
    /\ hist.calls >= 5
    /\ observed = [interrupted |-> TRUE, command |-> "go"]

(***************************************************************************)
(* C16                                                                     *)
(***************************************************************************)
\* the step is an update of the counters from an output: a call of
\* _update_budget_usage made on its own, or line 226 of _run_orchestrator
\* reached with the result of the orchestration and no interrupt observed
IsBudgetUpdate ==
    \/ pc = "budget" /\ hist'.calls = hist.calls + 1
    \/ pc = "polling" /\ inv.st = "returned" /\ ~istate.interrupted /\ pc' = "exit"

\* C16: the budget update replaces and never accumulates.  A step that
\* updates the counters from an output leaves searches_used equal to the
\* reported searches_performed if the output has that field and unchanged if
\* not, and the same, independently, for iterations_used and iterations;
\* every other step, the interrupt and failure paths among them, leaves both
\* counters as they were.
C16_BudgetReplaced ==
    [][ IF IsBudgetUpdate
        THEN /\ budget'.searches_used =
                   IF "searches_performed" \in inv'.result.keys
                   THEN inv'.result.searches_performed ELSE budget.searches_used
             /\ budget'.iterations_used =
                   IF "iterations" \in inv'.result.keys
                   THEN inv'.result.iterations ELSE budget.iterations_used
        ELSE budget' = budget ]_vars

\* after three updates: the last output reported searches_performed alone, the
\* searches counter holds that value and the iterations counter the value an
\* earlier output reported
C16_Witness ==
    /\ pc = "budget"
    /\ hist.calls >= 3
    /\ "iterations" \notin inv.result.keys
    /\ budget.iterations_used = 3
    /\ budget.searches_used = inv.result.searches_performed
    /\ budget.searches_used = 4

(***************************************************************************)
(* C17                                                                     *)
(***************************************************************************)
\* the positions of the messages a step appends to the stream
Emitted == (Len(stdout) + 1)..Len(stdout')

\* C17: with a capability that reports non-negative counts, no step lowers
\* searches_used or iterations_used; every decision carries, when it is
\* emitted, max_searches - searches_used and max_iterations - iterations_used
\* for the counters of that moment; and no decision of a run carries less
\* than the maximum minus the count the capability reported.
C17_MonotoneBudgetInDecisions ==
    [][ /\ budget'.searches_used >= budget.searches_used
        /\ budget'.iterations_used >= budget.iterations_used
        /\ \A i \in Emitted :
              stdout'[i].type = "decision" =>
                /\ stdout'[i].remaining_searches =
                      request'.line.config.max_searches - budget'.searches_used
                /\ stdout'[i].remaining_iterations =
                      request'.line.config.max_iterations - budget'.iterations_used
        /\ inv'.st = "returned" =>
              \A i \in 1..Len(stdout') :
                stdout'[i].type = "decision" =>
                  /\ "searches_performed" \in inv'.result.keys =>
                        stdout'[i].remaining_searches >=
                          request'.line.config.max_searches
                            - inv'.result.searches_performed
                  /\ "iterations" \in inv'.result.keys =>
                        stdout'[i].remaining_iterations >=
                          request'.line.config.max_iterations
                            - inv'.result.iterations ]_vars

\* a run ended by a decision "complete" that carries the maxima less the
\* counts the capability reported, after a decision "start" with the maxima
C17_Witness ==
    /\ pc = "exit"
    /\ budget.searches_used = 2
    /\ budget.iterations_used = 1
    /\ \E i, j \in Positions("decision") :
          /\ i < j
          /\ stdout[i].action = "start"
          /\ stdout[i].remaining_searches = DefaultMaxSearches
          /\ stdout[j].action = "complete"
          /\ stdout[j].remaining_searches = DefaultMaxSearches - 2
          /\ stdout[j].remaining_iterations = DefaultMaxIterations - 1

(***************************************************************************)
(* C18                                                                     *)
(***************************************************************************)
IsOrchestratorResponse(m) == m.type = "raw_response" /\ m.agent = "orchestrator"

Researching == pc \in {"polling", "awaiting_cancel"}
\* the lines written and not yet returned by a readline
PendingLines == buffered \o stdin
\* the step is a turn of the listener that reads a line that is not JSON
ListenerSkipsNotJson ==
    /\ listener = "running"
    /\ Researching
    /\ SelectReady
    /\ PendingLines # <<>>
    /\ NextLine.json = "malformed"
    /\ stdin' = PipeRest
    /\ buffered' = BufferedRest

\* C19: a line of the interrupt channel that is not JSON is ignored: the turn
\* of the listener that reads it leaves InterruptState as it is, emits
\* nothing and leaves the listener running; and an interrupt line that
\* follows such a line is recorded in the end, unless the research is over
\* first.
C19_NotJsonIgnoredInterruptStillRecorded ==
    /\ [][ ListenerSkipsNotJson =>
              /\ istate' = istate
              /\ stdout' = stdout
              /\ listener' = "running" ]_vars
    /\ ( /\ Researching
         /\ listener = "running"
         /\ hist.ignored
         /\ PendingLines # <<>>
         /\ IsInterrupt(Head(PendingLines)) )
          ~> (istate.interrupted \/ ~Researching)

(***************************************************************************)
(* C20                                                                     *)
(***************************************************************************)
\* the line is a JSON object with a list of strings under answers
HasListOfStrings(line) ==
    /\ line.json = "object"
    /\ line.answers.kind = "list"
    /\ \A i \in 1..Len(line.answers.items) : line.answers.items[i].str

\* C20: a second line that is missing, blank, not JSON, or JSON that is not an
\* object with a list of strings under answers counts as no answers: once it
\* is read the research starts, the orchestrator being prompted with the
\* query and no added context, and the run does not end on that line.
C20_BadAnswersLineIsNoAnswers ==
    (hist.answered /\ ~HasListOfStrings(hist.answers)) =>
        /\ \E i \in 1..Len(stdout) :
              stdout[i] = Prompt("orchestrator", 2,
                                 Content(request.line.query, NoContext))
        /\ \A i \in Positions("error") : i > Len(CleanOpening)

(***************************************************************************)
(* C21                                                                     *)
(***************************************************************************)
\* the run has reached the research phase: the orchestrator has been prompted
ReachedResearch == \E i \in 1..Len(stdout) : IsOrchestratorPrompt(stdout[i])

IsStatus(i) == i \in 1..Len(stdout) /\ stdout[i].type = "status"
\* (a) status "Research complete", then a report
OutcomeReport ==
    \E r \in Positions("report") :
        r > 1 /\ stdout[r - 1] = Status("Research complete")
\* (b) decision "complete", then a status, and no report
OutcomeNoHandoff ==
    /\ \E d \in Positions("decision") :
          stdout[d].action = "complete" /\ IsStatus(d + 1)
    /\ Positions("report") = {}
\* (c) decision "interrupt", then a status, and no report
OutcomeInterrupt ==
    /\ \E d \in InterruptDecisions : IsStatus(d + 1)
    /\ Positions("report") = {}
\* (d) an error raw_response, then error
OutcomeError ==
    \E i \in Positions("raw_response") :
        /\ stdout[i].content.kind = "error"
        /\ i < Len(stdout)
        /\ stdout[i + 1].type = "error"
OutcomeCount ==
    (IF OutcomeReport THEN 1 ELSE 0) + (IF OutcomeNoHandoff THEN 1 ELSE 0)
    + (IF OutcomeInterrupt THEN 1 ELSE 0) + (IF OutcomeError THEN 1 ELSE 0)

\* C21: a run that has reached the research phase and is over shows exactly
\* one of the four outcomes -- report, no-handoff decision, interrupt
\* decision, error response -- and each of them at most once; before it is
\* over it shows none; and no stream holds a report together with a decision
\* of action "complete" or "interrupt".
C21_OneOutcome ==
    /\ (pc = "exit" /\ ReachedResearch) => OutcomeCount = 1
    /\ (Researching /\ ReachedResearch) => OutcomeCount = 0
    /\ Cardinality(Positions("report")) <= 1
    /\ Cardinality({d \in Positions("decision") : stdout[d].action # "start"}) <= 1
    /\ Cardinality({i \in Positions("raw_response") :
                        stdout[i].content.kind = "error"}) <= 1
    /\ Positions("report") # {} =>
          \A d \in Positions("decision") : stdout[d].action = "start"

\* a run that ended, after a retry, on the no-handoff decision and on nothing
\* else
C21_Witness ==
    /\ pc = "exit"
    /\ ReachedResearch
    /\ OutcomeNoHandoff
    /\ ~OutcomeReport /\ ~OutcomeInterrupt /\ ~OutcomeError
    /\ HasRetried("orchestrator")

(***************************************************************************)
(* C22                                                                     *)
(***************************************************************************)
\* the step is a wake of the poll loop that leaves the loop or reads a flag
\* that has changed
IsPollWake == pc = "polling" /\ (pc' # pc \/ observed' # observed)

\* C22: at a wake of the poll loop the flag is tested before the completion
\* of the task.  A wake that finds the flag set and the task returned ends
\* the run with a decision of action "interrupt" and with neither the
\* orchestrator's raw_response nor a report; a wake that finds the flag clear
\* and the task returned ends it with the raw_response and no decision
\* "interrupt"; and once the loop is left and the run is over nothing,
\* whatever is written to the interrupt channel, changes the stream or the
\* flag.
C22_InterruptCheckedFirst ==
    [][ /\ (IsPollWake /\ istate.interrupted /\ inv.st = "returned") =>
              /\ pc' = "exit"
              /\ \E i \in Emitted :
                    /\ stdout'[i].type = "decision"
                    /\ stdout'[i].action = "interrupt"
              /\ \A i \in 1..Len(stdout') :
                    /\ ~IsOrchestratorResponse(stdout'[i])
                    /\ stdout'[i].type # "report"
        /\ (IsPollWake /\ ~istate.interrupted /\ inv.st = "returned") =>
              /\ pc' = "exit"
              /\ \E i \in Emitted : IsOrchestratorResponse(stdout'[i])
              /\ \A i \in 1..Len(stdout') :
                    ~(stdout'[i].type = "decision" /\ stdout'[i].action = "interrupt")
        /\ pc = "exit" => (stdout' = stdout /\ istate' = istate) ]_vars

\* the task had returned and the flag was set when the loop woke
C22_Witness ==
    /\ pc = "exit"
    /\ inv.agent = "orchestrator"
    /\ inv.st = "returned"
    /\ observed.interrupted
    /\ InterruptDecisions # {}
    /\ \A i \in 1..Len(stdout) : ~IsOrchestratorResponse(stdout[i])

(***************************************************************************)
(* C23                                                                     *)
(***************************************************************************)
\* an invocation is in flight: AgentRunner.run is inside an attempt or asleep
\* between two
InFlight(i) == i.st \in {"running", "sleeping"}
IsInterruptDecision(m) == m.type = "decision" /\ m.action = "interrupt"

\* C23: no invocation is started while another is in flight, and none is in
\* flight when a decision of action "interrupt" or done is emitted: the
\* cancelled orchestration task is over before the decision is produced.
C23_NoInvocationInFlight ==
    [][ /\ inv'.agent # inv.agent => ~InFlight(inv)
        /\ (\E i \in Emitted :
               IsInterruptDecision(stdout'[i]) \/ stdout'[i].type = "done")
              => ~InFlight(inv) /\ ~InFlight(inv') ]_vars

\* the task was cancelled inside an attempt and the decision came after
C23_Witness ==
    /\ pc = "exit"
    /\ inv.agent = "orchestrator"
    /\ inv.st = "cancelled"
    /\ InterruptDecisions # {}
    /\ EndsWithDone

(***************************************************************************)
(* C24                                                                     *)
(***************************************************************************)
\* C24: cancellation is never retried.  Once the orchestration task has been
\* cancelled, inside an attempt or asleep in a backoff, AgentRunner.run
\* starts no further attempt and logs nothing more and the task ends
\* cancelled; while the main task waits for it, the delivery of the
\* cancellation or the return of the await is always possible; and the step
\* that ends the wait ends the run with done.
C24_CancellationNotRetried ==
    [][ /\ inv.cancel =>
              /\ inv'.attempt = inv.attempt
              /\ stderr' = stderr
              /\ inv'.st \in {inv.st, "cancelled"}
        /\ pc' = "awaiting_cancel" =>
              /\ inv'.cancel
              /\ InFlight(inv') \/ inv'.st = "cancelled"
        /\ (pc = "awaiting_cancel" /\ pc' # pc) =>
              /\ inv.st = "cancelled"
              /\ pc' = "exit"
              /\ stdout'[Len(stdout')].type = "done" ]_vars

\* a run that was cancelled during a retry backoff and ended with done
C24_Witness ==
    /\ pc = "exit"
    /\ inv.st = "cancelled"
    /\ inv.cancel
    /\ stderr[Len(stderr)].msg = "retrying"
    /\ EndsWithDone

(***************************************************************************)
(* C25                                                                     *)
(***************************************************************************)
ProtocolTypes ==
    {"status", "trace", "prompt", "raw_response", "clarifying_questions",
     "decision", "report", "metadata", "error", "done"}
IsPrefix(s, t) == Len(s) <= Len(t) /\ \A i \in 1..Len(s) : s[i] = t[i]

\* C25: the protocol stream has one writer.  Every step that writes to it is
\* a step of the main workflow task, which moves the workflow on; a turn of
\* the listener, and an attempt, failure, backoff or cancellation of the
\* invocation with its log lines, leave it as it is; the stream only grows at
\* its end, and every message in it is one protocol message.
C25_SingleWriter ==
    [][ /\ stdout' # stdout => pc' # pc
        /\ ( \/ istate' # istate
             \/ (listener = "running" /\ listener' = "crashed")
             \/ hist'.ignored # hist.ignored ) => stdout' = stdout
        /\ (inv'.agent = inv.agent /\ inv' # inv) => stdout' = stdout
        /\ IsPrefix(stdout, stdout')
        /\ \A i \in 1..Len(stdout') : stdout'[i].type \in ProtocolTypes ]_vars

\* a finished run in which the listener recorded an interrupt and the
\* invocation task logged a retry
C25_Witness ==
    /\ pc = "exit"
    /\ hist.signalled
    /\ HasRetried("orchestrator")
    /\ Len(stderr) >= 4
    /\ EndsWithDone

(***************************************************************************)
(* C26                                                                     *)
(***************************************************************************)
\* C26: the listener is active during the research phase and only then: it
\* runs in no state outside the research, it runs in every state of the
\* research, beside the orchestration, and it has been stopped when done is
\* in the stream.
C26_ListenerDuringResearchOnly ==
    /\ listener = "running" => Researching
    /\ Researching => listener = "running"
    /\ EndsWithDone => listener \in {"notstarted", "cancelled"}
    /\ (~Researching /\ pc # "exit" /\ pc # "controller") => ~istate.interrupted

(***************************************************************************)
(* C27                                                                     *)
(***************************************************************************)
\* C27: a line of the control channel that is not an interrupt message -- not
\* JSON, or JSON that is not an object -- changes nothing in the outcome.  A
\* run in which the orchestration returned and no interrupt was recorded ends
\* with the stream of the run that was sent no such line: the opening, the
\* completion events and done with success=true.
C27_OtherControlLinesChangeNothing ==
    ( /\ pc = "exit"
      /\ inv.agent = "orchestrator"
      /\ inv.st = "returned"
      /\ ~observed.interrupted ) =>
        stdout = CleanOpening \o CompletionEvents(inv.result, budget)
                              \o <<Done(TRUE)>>

(***************************************************************************)
(* C28                                                                     *)
(***************************************************************************)
\* C28: at most one raw_response is in the stream for any sequence number, on
\* the failure and interrupt paths as on the others: the error raw_response
\* of the research phase's exception handler is for a sequence that has no
\* other raw_response.
C28_OneResponsePerSequence ==
    \A i, j \in Positions("raw_response") :
        stdout[i].sequence = stdout[j].sequence => i = j

\* a finished run whose orchestration failed: the clarifier's raw_response
\* and the handler's error raw_response are both in the stream
C28_Witness ==
    /\ pc = "exit"
    /\ EndsWithDone
    /\ inv.agent = "orchestrator"
    /\ inv.st = "raised"
    /\ \E i, j \in Positions("raw_response") :
          /\ i < j
          /\ stdout[i].agent = "clarifier"
          /\ stdout[j].content.kind = "error"
          /\ stdout[j].sequence = sequence

====
